---- MODULE Spec2Model ----
(***************************************************************************)
(* Model of the rosetrap value hand-off service.                           *)
(*                                                                         *)
(*   src/server_data_hub.py  the FastAPI server: DATA_HUB and the four     *)
(*                           endpoints /request_data, /set_lookout,        *)
(*                           /acknowledge (async def: they run on the      *)
(*                           event loop, one at a time, and give the loop  *)
(*                           up only at an await) and /update_variable     *)
(*                           (plain def: it runs on a worker thread and    *)
(*                           interleaves with everything else).            *)
(*   src/core_utils.py       the client: api_call and the public functions *)
(*                           receiveFromServer, printToServer,             *)
(*                           acknowledge_data, request_data_status.        *)
(*                                                                         *)
(* Every client process makes one call of a public function.  A call of    *)
(* api_call creates one server request, req[c]; the client then either     *)
(* gets the response or gives up (requests' timeout, a connection error),  *)
(* and the server is not told when it gives up.                            *)
(*                                                                         *)
(* A VariableState dict is identified by the client whose request built    *)
(* it (a request builds at most one), so objs[c] is the dict built by      *)
(* req[c] and DATA_HUB[k] = 0 stands for "k not in DATA_HUB".              *)
(*                                                                         *)
(* asyncio.Event is its flag (ev) and the futures of the coroutines parked *)
(* in wait (waiters, futDone).  Event.set called from the worker thread is *)
(* two steps, the flag and then the futures.  Nothing in the repository    *)
(* makes Event.wait raise, so the except branch of set_lookout (lines      *)
(* 94-96) is not reached and no handler answers ERROR; no handler answers  *)
(* TIMEOUT either, there being no deadline in the code.                    *)
(*                                                                         *)
(* hist records what the properties need of the past and steers nothing:   *)
(*   sus[p]     the waiters parked when update_variable p started          *)
(*   win[c]     "open" from the PENDING answer to driver c until its       *)
(*              set_lookout starts, "hit" once a Publish returned meanwhile*)
(*   pubLog     the values of the Publishes that returned, in that order   *)
(*   overlap    two Publishes were in progress at once                     *)
(*   snap[c]    Len(pubLog) when read c started with no Publish in         *)
(*              progress and none overlapped, -1 otherwise or once a       *)
(*              Publish takes a step during c                              *)
(*   armedEver  some set_lookout has armed                                 *)
(*   sigVal[o]  the value dict o held at the last call of its Event.set    *)
(*   lastPub[o] the value of the last update_variable that wrote to dict o *)
(*   fired[w]   a step of Event.set ran on the dict of set_lookout w since *)
(*              w armed                                                    *)
(***************************************************************************)
EXTENDS Integers, FiniteSets, Sequences, TLC

\* ------------------------------------------------------------------ bounds
NumClients == 4
MaxValue == 1

Clients == 1..NumClients
Keys == {"k"}
PyValues == 0..MaxValue

\* Python's None, for an absent value and for api_call's failure result.
None == "None"

\* str(var_value) of printToServer, on the naturals the model publishes.
Digits == <<"0", "1", "2", "3", "4", "5", "6", "7", "8", "9">>
RECURSIVE PyStr(_)
PyStr(n) == IF n < 10 THEN Digits[n + 1] ELSE PyStr(n \div 10) \o Digits[(n % 10) + 1]

Values == {PyStr(n) : n \in PyValues}

Programs == {"receive", "publish", "ack", "status"}

VARIABLES
    DATA_HUB,   \* key -> the client id of the dict installed for it, 0 = absent
    objs,       \* client id -> the VariableState dict that client's request built
    req,        \* client id -> the server-side handler invocation of its call
    loopCur,    \* the client whose async handler holds the event loop, 0 = free
    cl,         \* client id -> the client process
    hist        \* history of the run, read by the properties only

vars == <<DATA_HUB, objs, req, loopCur, cl, hist>>

\* ------------------------------------------------------------- server data
\* The dict literal of get_variable_state; waiters and the flag are Event().
NewState == [value |-> None, lookout |-> FALSE, ev |-> FALSE,
             waiters |-> {}, response_message |-> ""]

NoResp == [status |-> "", value |-> None, message |-> ""]
NoReq == [ep |-> "none", key |-> "k", new_value |-> None, pc |-> "none",
          st |-> 0, futDone |-> FALSE, resp |-> NoResp]

Resp(s, v, m) == [status |-> s, value |-> v, message |-> m]

\* async endpoints run on the event loop; update_variable on a worker thread.
OnLoop(c) == req[c].ep # "update_variable"

\* A step of c's handler may run: a thread always, a coroutine when it holds
\* the loop.
Holds(c) == IF OnLoop(c) THEN loopCur = c ELSE TRUE

BodyPc(ep) == CASE ep = "request_data" -> "rd_check"
                [] ep = "set_lookout" -> "sl_check"
                [] ep = "acknowledge" -> "ak_lookout"
                [] ep = "update_variable" -> "uv_write"
                [] OTHER -> "none"

\* ------------------------------------------------------------------ history
\* A request that has run its first step and has not returned.
InFlight(c) == req[c].pc \notin {"none", "gvs_check", "done"}
PubInFlight(c) == req[c].ep = "update_variable" /\ InFlight(c)

\* A coroutine of set_lookout parked in Event.wait whose future is not resolved.
Parked(c) == req[c].pc = "suspended" /\ ~req[c].futDone

\* hist.snap of the reads in flight is void once a publish takes a step.
VoidSnaps(p) == [c \in Clients |->
                   IF c # p /\ InFlight(c) /\ req[c].ep # "update_variable"
                   THEN -1 ELSE hist.snap[c]]

\* The first step of c's handler.
HistStart(c) ==
    IF req[c].ep = "update_variable"
    THEN [hist EXCEPT !.sus[c] = {w \in Clients : Parked(w)},
                      !.overlap = @ \/ (\E p \in Clients \ {c} : PubInFlight(p)),
                      !.snap = VoidSnaps(c)]
    ELSE [hist EXCEPT !.snap[c] = IF ~hist.overlap /\ ~(\E p \in Clients : PubInFlight(p))
                                  THEN Len(hist.pubLog) ELSE -1,
                      !.win[c] = IF req[c].ep = "set_lookout" /\ @ = "open"
                                 THEN "no" ELSE @]

\* Any later step of c's handler but its return.
HistStep(c) ==
    IF req[c].ep = "update_variable" THEN [hist EXCEPT !.snap = VoidSnaps(c)] ELSE hist

\* The return of update_variable.
HistPubDone(c) ==
    [hist EXCEPT !.snap = VoidSnaps(c),
                 !.pubLog = Append(@, req[c].new_value),
                 !.win = [w \in Clients |-> IF hist.win[w] = "open" THEN "hit"
                                            ELSE hist.win[w]]]

\* The set_lookout calls that have armed dict o and have not been woken.
ArmedOn(o) == {w \in Clients : /\ req[w].ep = "set_lookout" /\ req[w].st = o
                               /\ req[w].pc \in {"sl_clear", "sl_wait", "suspended"}}

\* A step of Event.set by update_variable c, on top of the history h.
HistFire(c, h) == [h EXCEPT !.fired = [w \in Clients |-> @[w] \/ w \in ArmedOn(req[c].st)]]

\* The call of Event.set by update_variable c, on top of the history h.
HistSet(c, h) == [HistFire(c, h) EXCEPT !.sigVal[req[c].st] = objs[req[c].st].value]

\* ------------------------------------------------- server: get_variable_state
\* Line 38, and line 46 when the key is there: the handler starts; a coroutine
\* takes the event loop.
GvsCheck(c) ==
    /\ req[c].pc = "gvs_check"
    /\ OnLoop(c) => loopCur = 0
    /\ req' = [req EXCEPT ![c].pc = IF DATA_HUB[req[c].key] # 0
                                    THEN BodyPc(req[c].ep) ELSE "gvs_install",
                          ![c].st = DATA_HUB[req[c].key]]
    /\ loopCur' = IF OnLoop(c) THEN c ELSE loopCur
    /\ hist' = HistStart(c)
    /\ UNCHANGED <<DATA_HUB, objs, cl>>

\* Lines 39-44: a new dict is stored under the key, whatever is there by now.
GvsInstall(c) ==
    /\ req[c].pc = "gvs_install"
    /\ Holds(c)
    /\ objs' = [objs EXCEPT ![c] = NewState]
    /\ DATA_HUB' = [DATA_HUB EXCEPT ![req[c].key] = c]
    /\ req' = [req EXCEPT ![c].pc = "gvs_ret"]
    /\ hist' = HistStep(c)
    /\ UNCHANGED <<loopCur, cl>>

\* Line 46 after an install: the dict under the key now.
GvsRet(c) ==
    /\ req[c].pc = "gvs_ret"
    /\ Holds(c)
    /\ req' = [req EXCEPT ![c].pc = BodyPc(req[c].ep),
                          ![c].st = DATA_HUB[req[c].key]]
    /\ hist' = HistStep(c)
    /\ UNCHANGED <<DATA_HUB, objs, loopCur, cl>>

\* ------------------------------------------------------ server: /request_data
\* Lines 58-65.
RdCheck(c) ==
    /\ req[c].pc = "rd_check"
    /\ Holds(c)
    /\ LET v == objs[req[c].st].value
           r == IF v # None THEN Resp("READY", v, "") ELSE Resp("PENDING", None, "")
       IN /\ req' = [req EXCEPT ![c].pc = "done", ![c].resp = r]
          /\ hist' = [hist EXCEPT !.win[c] = IF r.status = "PENDING"
                                                /\ cl[c].prog = "receive"
                                                /\ cl[c].pc = "wait_status"
                                             THEN "open" ELSE @]
    /\ loopCur' = 0
    /\ UNCHANGED <<DATA_HUB, objs, cl>>

\* ------------------------------------------------------- server: /set_lookout
\* Lines 78-81: the re-check of the value.
SlCheck(c) ==
    /\ req[c].pc = "sl_check"
    /\ Holds(c)
    /\ LET v == objs[req[c].st].value
       IN IF v # None
          THEN /\ req' = [req EXCEPT ![c].pc = "done", ![c].resp = Resp("READY", v, "")]
               /\ loopCur' = 0
          ELSE /\ req' = [req EXCEPT ![c].pc = "sl_arm"]
               /\ UNCHANGED loopCur
    /\ UNCHANGED <<DATA_HUB, objs, cl, hist>>

\* Line 83.
SlArm(c) ==
    /\ req[c].pc = "sl_arm"
    /\ Holds(c)
    /\ objs' = [objs EXCEPT ![req[c].st].lookout = TRUE]
    /\ req' = [req EXCEPT ![c].pc = "sl_clear"]
    /\ hist' = [hist EXCEPT !.armedEver = TRUE, !.fired[c] = FALSE]
    /\ UNCHANGED <<DATA_HUB, loopCur, cl>>

\* Line 84 left out: the Event is not cleared before the wait.
SlClear_Skipped(c) ==
    /\ req[c].pc = "sl_clear"
    /\ Holds(c)
    /\ req' = [req EXCEPT ![c].pc = "sl_wait"]
    /\ UNCHANGED <<DATA_HUB, objs, loopCur, cl, hist>>

\* Line 84: Event.clear.
SlClear(c) ==
    /\ req[c].pc = "sl_clear"
    /\ Holds(c)
    /\ objs' = [objs EXCEPT ![req[c].st].ev = FALSE]
    /\ req' = [req EXCEPT ![c].pc = "sl_wait"]
    /\ UNCHANGED <<DATA_HUB, loopCur, cl, hist>>

\* Line 88: Event.wait. With the flag set it returns at once; otherwise the
\* coroutine's future joins the waiters and the coroutine gives the loop up.
SlWait(c) ==
    /\ req[c].pc = "sl_wait"
    /\ Holds(c)
    /\ IF objs[req[c].st].ev
       THEN /\ req' = [req EXCEPT ![c].pc = "sl_woken"]
            /\ UNCHANGED <<objs, loopCur>>
       ELSE /\ objs' = [objs EXCEPT ![req[c].st].waiters = @ \cup {c}]
            /\ req' = [req EXCEPT ![c].pc = "suspended", ![c].futDone = FALSE]
            /\ loopCur' = 0
    /\ UNCHANGED <<DATA_HUB, cl, hist>>

\* Line 88, the coroutine resumed by its resolved future (wait's finally
\* takes the future out of the waiters).
SlResume(c) ==
    /\ req[c].pc = "suspended"
    /\ req[c].futDone
    /\ loopCur = 0
    /\ objs' = [objs EXCEPT ![req[c].st].waiters = @ \ {c}]
    /\ req' = [req EXCEPT ![c].pc = "sl_woken"]
    /\ loopCur' = c
    /\ UNCHANGED <<DATA_HUB, cl, hist>>

\* Lines 91-93 reading DATA_HUB[var_name] again instead of the local state.
SlReturn_KeyState(c) ==
    /\ req[c].pc = "sl_woken"
    /\ Holds(c)
    /\ req' = [req EXCEPT ![c].pc = "done",
                          ![c].resp = Resp("RECEIVED", objs[DATA_HUB[req[c].key]].value, "")]
    /\ loopCur' = 0
    /\ UNCHANGED <<DATA_HUB, objs, cl, hist>>

\* Lines 91-93: the value is read now, not when the signal fired.
SlReturn(c) ==
    /\ req[c].pc = "sl_woken"
    /\ Holds(c)
    /\ req' = [req EXCEPT ![c].pc = "done",
                          ![c].resp = Resp("RECEIVED", objs[req[c].st].value, "")]
    /\ loopCur' = 0
    /\ UNCHANGED <<DATA_HUB, objs, cl, hist>>

\* ------------------------------------------------------- server: /acknowledge
\* Line 104.
AckLookoutOff(o) == [o EXCEPT !.lookout = FALSE]

AkLookout(c) ==
    /\ req[c].pc = "ak_lookout"
    /\ Holds(c)
    /\ objs' = [objs EXCEPT ![req[c].st] = AckLookoutOff(@)]
    /\ req' = [req EXCEPT ![c].pc = "ak_clear"]
    /\ UNCHANGED <<DATA_HUB, loopCur, cl, hist>>

\* Lines 105-108.
AckClear_EventKept(o) == [o EXCEPT !.response_message = ""]

AckClear(o) == [o EXCEPT !.ev = FALSE, !.response_message = ""]

AkClear(c) ==
    /\ req[c].pc = "ak_clear"
    /\ Holds(c)
    /\ objs' = [objs EXCEPT ![req[c].st] = AckClear(@)]
    /\ req' = [req EXCEPT ![c].pc = "done", ![c].resp = Resp("OK", None, "")]
    /\ loopCur' = 0
    /\ UNCHANGED <<DATA_HUB, cl, hist>>

\* --------------------------------------------------- server: /update_variable
\* Line 122 left out: the new value is not stored.
UvWrite_NotStored(c) ==
    /\ req[c].pc = "uv_write"
    /\ req' = [req EXCEPT ![c].pc = "uv_read"]
    /\ hist' = HistStep(c)
    /\ UNCHANGED <<DATA_HUB, objs, loopCur, cl>>

\* Line 122.
UvWrite(c) ==
    /\ req[c].pc = "uv_write"
    /\ objs' = [objs EXCEPT ![req[c].st].value = req[c].new_value]
    /\ req' = [req EXCEPT ![c].pc = "uv_read"]
    /\ hist' = [HistStep(c) EXCEPT !.lastPub[req[c].st] = req[c].new_value]
    /\ UNCHANGED <<DATA_HUB, loopCur, cl>>

\* Lines 126 and 131-133.
UvRead(c) ==
    /\ req[c].pc = "uv_read"
    /\ IF objs[req[c].st].lookout
       THEN /\ req' = [req EXCEPT ![c].pc = "uv_set"]
            /\ hist' = HistStep(c)
       ELSE /\ req' = [req EXCEPT ![c].pc = "done",
                                  ![c].resp = Resp("OK", None, "nowaiter")]
            /\ hist' = HistPubDone(c)
    /\ UNCHANGED <<DATA_HUB, objs, loopCur, cl>>

\* Line 128, Event.set: the flag; with the flag already set there is nothing
\* more to do and lines 129-130 return.
UvSet(c) ==
    /\ req[c].pc = "uv_set"
    /\ IF objs[req[c].st].ev
       THEN /\ req' = [req EXCEPT ![c].pc = "done",
                                  ![c].resp = Resp("OK", None, "notified")]
            /\ hist' = HistSet(c, HistPubDone(c))
            /\ UNCHANGED objs
       ELSE /\ objs' = [objs EXCEPT ![req[c].st].ev = TRUE]
            /\ req' = [req EXCEPT ![c].pc = "uv_wake"]
            /\ hist' = HistSet(c, HistStep(c))
    /\ UNCHANGED <<DATA_HUB, loopCur, cl>>

\* Line 128, Event.set: the futures of the waiters are resolved; lines 129-130.
UvWake(c) ==
    /\ req[c].pc = "uv_wake"
    /\ req' = [w \in Clients |->
                 IF w = c
                 THEN [req[c] EXCEPT !.pc = "done", !.resp = Resp("OK", None, "notified")]
                 ELSE IF w \in objs[req[c].st].waiters
                      THEN [req[w] EXCEPT !.futDone = TRUE]
                      ELSE req[w]]
    /\ hist' = HistFire(c, HistPubDone(c))
    /\ UNCHANGED <<DATA_HUB, objs, loopCur, cl>>

\* --------------------------------------------------------- client: api_call
\* Lines 24-28: the request goes out and a handler invocation is created.
NewReq(ep, name, v) == [ep |-> ep, key |-> name, new_value |-> v, pc |-> "gvs_check",
                        st |-> 0, futDone |-> FALSE, resp |-> NoResp]

\* api_call's failure result (lines 34-45): None.
Failed == NoResp

ApiOutcomes_NoTimeout(c) == IF req[c].pc = "done" THEN {req[c].resp} ELSE {}

\* Lines 28-45: what api_call can return now: the handler's JSON once it has
\* returned, or None (the timeout, a connection error) at any time.
ApiOutcomes(c) == {Failed} \cup (IF req[c].pc = "done" THEN {req[c].resp} ELSE {})

\* ------------------------------------------------- client: receiveFromServer
\* Line 73: request_data_status.
ReceiveStart(c) ==
    /\ cl[c].prog = "receive"
    /\ cl[c].pc = "start"
    /\ req' = [req EXCEPT ![c] = NewReq("request_data", cl[c].var_name, None)]
    /\ cl' = [cl EXCEPT ![c].pc = "wait_status"]
    /\ UNCHANGED <<DATA_HUB, objs, loopCur, hist>>

\* Lines 75-95.
AfterStatusWith(c, r) ==
    /\ cl[c].prog = "receive"
    /\ cl[c].pc = "wait_status"
    /\ IF r = Failed
       THEN /\ cl' = [cl EXCEPT ![c].pc = "done", ![c].result = None]
            /\ UNCHANGED req
       ELSE IF r.status = "READY"
       THEN /\ cl' = [cl EXCEPT ![c].pc = "done", ![c].result = r.value]
            /\ UNCHANGED req
       ELSE IF r.status # "PENDING"
       THEN /\ cl' = [cl EXCEPT ![c].pc = "done", ![c].result = None]
            /\ UNCHANGED req
       ELSE /\ cl' = [cl EXCEPT ![c].pc = "wait_lookout", ![c].waitSent = TRUE]
            /\ req' = [req EXCEPT ![c] = NewReq("set_lookout", cl[c].var_name, None)]
    /\ UNCHANGED <<DATA_HUB, objs, loopCur, hist>>

\* Lines 97-115 with line 111 left out: the value is returned unacknowledged.
AfterWaitWith_NoAck(c, r) ==
    /\ cl[c].prog = "receive"
    /\ cl[c].pc = "wait_lookout"
    /\ IF r = Failed
       THEN /\ cl' = [cl EXCEPT ![c].pc = "done", ![c].result = None]
            /\ UNCHANGED req
       ELSE IF r.status \in {"READY", "RECEIVED"} /\ r.value # None
       THEN /\ cl' = [cl EXCEPT ![c].pc = "done", ![c].result = r.value]
            /\ UNCHANGED req
       ELSE /\ cl' = [cl EXCEPT ![c].pc = "wait_ack", ![c].ackSent = TRUE,
                                ![c].result = None]
            /\ req' = [req EXCEPT ![c] = NewReq("acknowledge", cl[c].var_name, None)]
    /\ UNCHANGED <<DATA_HUB, objs, loopCur, hist>>

\* Lines 97-115: on None, return None; otherwise acknowledge_data, after the
\* value was taken (line 111) or after none was (line 115).
AfterWaitWith(c, r) ==
    /\ cl[c].prog = "receive"
    /\ cl[c].pc = "wait_lookout"
    /\ IF r = Failed
       THEN /\ cl' = [cl EXCEPT ![c].pc = "done", ![c].result = None]
            /\ UNCHANGED req
       ELSE /\ cl' = [cl EXCEPT ![c].pc = "wait_ack", ![c].ackSent = TRUE,
                                ![c].result = IF r.status \in {"READY", "RECEIVED"}
                                                 /\ r.value # None
                                              THEN r.value ELSE None]
            /\ req' = [req EXCEPT ![c] = NewReq("acknowledge", cl[c].var_name, None)]
    /\ UNCHANGED <<DATA_HUB, objs, loopCur, hist>>

\* Lines 111-112 and 115-116: whatever acknowledge_data returned.
AfterAckWith(c, r) ==
    /\ cl[c].prog = "receive"
    /\ cl[c].pc = "wait_ack"
    /\ cl' = [cl EXCEPT ![c].pc = "done"]
    /\ UNCHANGED <<DATA_HUB, objs, req, loopCur, hist>>

\* The three stages, on whatever api_call returns.
ReceiveAfterStatus(c) == \E r \in ApiOutcomes(c) : AfterStatusWith(c, r)
ReceiveAfterWait(c) == \E r \in ApiOutcomes(c) : AfterWaitWith(c, r)
ReceiveAfterAck(c) == \E r \in ApiOutcomes(c) : AfterAckWith(c, r)

\* ------------------------------------------ client: the other public functions
\* Each makes its one api_call and hands the result to its caller; nothing in
\* the module acts on that result, so the client is left at "called".
\* Lines 67-68 and 61-62: printToServer sends str(var_value).
PrintToServer(c) ==
    /\ cl[c].prog = "publish"
    /\ cl[c].pc = "start"
    /\ req' = [req EXCEPT ![c] = NewReq("update_variable", cl[c].var_name,
                                        PyStr(cl[c].var_value))]
    /\ cl' = [cl EXCEPT ![c].pc = "called"]
    /\ UNCHANGED <<DATA_HUB, objs, loopCur, hist>>

\* Lines 57-59.
AcknowledgeData(c) ==
    /\ cl[c].prog = "ack"
    /\ cl[c].pc = "start"
    /\ req' = [req EXCEPT ![c] = NewReq("acknowledge", cl[c].var_name, None)]
    /\ cl' = [cl EXCEPT ![c].pc = "called", ![c].ackSent = TRUE]
    /\ UNCHANGED <<DATA_HUB, objs, loopCur, hist>>

\* Lines 49-51.
RequestDataStatus(c) ==
    /\ cl[c].prog = "status"
    /\ cl[c].pc = "start"
    /\ req' = [req EXCEPT ![c] = NewReq("request_data", cl[c].var_name, None)]
    /\ cl' = [cl EXCEPT ![c].pc = "called"]
    /\ UNCHANGED <<DATA_HUB, objs, loopCur, hist>>

\* ------------------------------------------------------------ specification
NewClient(prog, v) == [prog |-> prog, var_name |-> "k", var_value |-> v, pc |-> "start",
                       result |-> None, waitSent |-> FALSE, ackSent |-> FALSE]

\* The runs explored: who calls what. Clients past the listed ones only poll
\* the status. Publishers are interchangeable and so are the values, so the
\* first publisher of a run publishes 0 and the others publish any value.
Scenarios == {<<"status", "publish", "publish", "ack">>,
              <<"receive", "receive", "publish", "ack">>,
              <<"receive", "status", "publish", "ack">>}

LiveScenarios == {<<"receive", "status", "publish", "ack">>}

\* A receiver and two publishers.
TwoPubScenarios == {<<"receive", "publish", "publish", "ack">>,
                    <<"receive", "status", "publish", "ack">>}

ProgOf(sc, c) == IF c <= Len(sc) THEN sc[c] ELSE "status"

ClientsOf(sc, v) ==
    [c \in Clients |->
        LET prog == ProgOf(sc, c)
            first == \A d \in 1..(c - 1) : ProgOf(sc, d) # "publish"
        IN NewClient(prog, IF prog = "publish" /\ ~first THEN v[c] ELSE 0)]

ClientConfigs(scs) == {ClientsOf(sc, v) : sc \in scs, v \in [Clients -> PyValues]}

HistInit == [sus |-> [c \in Clients |-> {}],
             win |-> [c \in Clients |-> "no"],
             snap |-> [c \in Clients |-> -1],
             pubLog |-> <<>>,
             overlap |-> FALSE,
             armedEver |-> FALSE,
             sigVal |-> [c \in Clients |-> None],
             lastPub |-> [c \in Clients |-> None],
             fired |-> [c \in Clients |-> FALSE]]

\* The server has just started (DATA_HUB = {}, line 34) and no client has
\* called yet.
ServerInit ==
    /\ DATA_HUB = [k \in Keys |-> 0]
    /\ objs = [c \in Clients |-> NewState]
    /\ req = [c \in Clients |-> NoReq]
    /\ loopCur = 0
    /\ hist = HistInit

Init == ServerInit /\ cl \in ClientConfigs(Scenarios)

LiveInit == ServerInit /\ cl \in ClientConfigs(LiveScenarios)

TwoPubInit == ServerInit /\ cl \in ClientConfigs(TwoPubScenarios)

ServerStep(c) ==
    \/ GvsCheck(c) \/ GvsInstall(c) \/ GvsRet(c)
    \/ RdCheck(c)
    \/ SlCheck(c) \/ SlArm(c) \/ SlClear(c) \/ SlWait(c) \/ SlResume(c) \/ SlReturn(c)
    \/ AkLookout(c) \/ AkClear(c)
    \/ UvWrite(c) \/ UvRead(c) \/ UvSet(c) \/ UvWake(c)

ClientStep(c) ==
    \/ ReceiveStart(c) \/ PrintToServer(c) \/ AcknowledgeData(c) \/ RequestDataStatus(c)
    \/ ReceiveAfterStatus(c) \/ ReceiveAfterWait(c) \/ ReceiveAfterAck(c)

Next == \E c \in Clients : ServerStep(c) \/ ClientStep(c)

Spec == Init /\ [][Next]_vars

\* api_call returns: requests gives up at request_timeout at the latest.
ApiReturn(c) == ReceiveAfterStatus(c) \/ ReceiveAfterWait(c) \/ ReceiveAfterAck(c)

\* The event loop and the thread pool run every handler that can run, and
\* every api_call returns.  Nothing makes a client start its call.
Fairness == \A c \in Clients : WF_vars(ServerStep(c)) /\ WF_vars(ApiReturn(c))

FairSpec == LiveInit /\ [][Next]_vars /\ Fairness

TwoPubSpec == TwoPubInit /\ [][Next]_vars

\* ------------------------------------------------------------- observations
\* What the key holds now: the value, the armed flag and the signal of the dict
\* installed under it.
KeyValue(k) == IF DATA_HUB[k] = 0 THEN None ELSE objs[DATA_HUB[k]].value
KeyArmed(k) == DATA_HUB[k] # 0 /\ objs[DATA_HUB[k]].lookout
KeySignal(k) == DATA_HUB[k] # 0 /\ objs[DATA_HUB[k]].ev

IsDone(c, ep) == req[c].ep = ep /\ req[c].pc = "done"

Publishers == {c \in Clients : cl[c].prog = "publish"}
AllPublished == \A p \in Publishers : IsDone(p, "update_variable")
NoPublishCalled == \A p \in Publishers : cl[p].pc = "start"
NoAckCalled == \A c \in Clients : ~cl[c].ackSent

\* ----------------------------------------------------------------------- C1
\* C1: an ArmAndWait that found the key empty, armed and suspended returns
\* RECEIVED with a published value once a Publish that started after it
\* suspended has returned, whatever calls came in between.
C1_Published(w) == /\ req[w].ep = "set_lookout"
                   /\ req[w].pc # "done"
                   /\ \E p \in Clients : w \in hist.sus[p] /\ IsDone(p, "update_variable")
C1_Received(w) == /\ IsDone(w, "set_lookout")
                  /\ req[w].resp.status = "RECEIVED"
                  /\ req[w].resp.value \in Values
C1_ArmedWaiterReceives == \A w \in Clients : C1_Published(w) ~> C1_Received(w)

\* ----------------------------------------------------------------------- C2
\* C2: when a Publish returned after the driver's CheckStatus answered PENDING
\* and before its ArmAndWait started, that ArmAndWait neither arms nor clears
\* nor suspends, and what it returns is READY with a published value.
C2_RaceFreedom ==
    \A c \in Clients :
        (hist.win[c] = "hit" /\ req[c].ep = "set_lookout") =>
            /\ req[c].pc \notin {"sl_arm", "sl_clear", "sl_wait", "suspended", "sl_woken"}
            /\ req[c].pc = "done" =>
                  (req[c].resp.status = "READY" /\ req[c].resp.value \in Values)

\* ----------------------------------------------------------------------- C3
\* C3: a Publish and an ArmAndWait on the same key never interleave so as to
\* leave the ArmAndWait suspended, unsignalled, while the key holds a value
\* and every Publish has returned (no Acknowledge was ever called).
C3_NoLostWakeup ==
    \A w \in Clients :
        ~(/\ Parked(w)
          /\ KeyValue(req[w].key) # None
          /\ AllPublished
          /\ NoAckCalled)

\* ----------------------------------------------------------------------- C4
\* C4: a CheckStatus that starts after a Publish of v returned, with no step of
\* any other Publish since, returns READY with exactly v.
C4_RoundTrip ==
    \A c \in Clients :
        (IsDone(c, "request_data") /\ hist.snap[c] >= 1) =>
            req[c].resp = Resp("READY", hist.pubLog[hist.snap[c]], "")

\* ----------------------------------------------------------------------- C5
\* C5: once the key holds a value it holds one in every later state, and the
\* value it holds changes only by the write of a Publish.
UvWrites == \E p \in Clients : req[p].pc = "uv_write" /\ req'[p].pc = "uv_read"
C5_ValueRetained ==
    [][\A k \in Keys :
          KeyValue(k) # None =>
              /\ KeyValue(k)' # None
              /\ KeyValue(k)' # KeyValue(k) => UvWrites]_vars

\* ----------------------------------------------------------------------- C6
\* C6: /acknowledge is never blocked by the state of the key (it can take its
\* next step whenever the event loop is its own); whenever it returns, in
\* whatever state it ran, it answers OK and leaves the dict it worked on, and
\* the key, with armed false and the signal clear, the value untouched; and
\* running it again on what it leaves, or on any dict, changes nothing more.
AckEffect(o) == AckClear(AckLookoutOff(o))
AckReturns(c) == req[c].ep = "acknowledge" /\ req[c].pc = "ak_clear" /\ req'[c].pc = "done"
AckHasLoop(c) == /\ req[c].ep = "acknowledge"
                 /\ req[c].pc # "done"
                 /\ loopCur = c \/ (loopCur = 0 /\ req[c].pc = "gvs_check")
C6_AckTotalIdempotent ==
    /\ [][\A c \in Clients :
             AckReturns(c) =>
                 /\ req'[c].resp.status = "OK"
                 /\ ~objs'[req[c].st].lookout
                 /\ ~objs'[req[c].st].ev
                 /\ ~KeyArmed(req[c].key)'
                 /\ ~KeySignal(req[c].key)'
                 /\ objs'[req[c].st].value = objs[req[c].st].value
                 /\ AckEffect(objs'[req[c].st]) = objs'[req[c].st]]_vars
    /\ [](\A c \in Clients : AckEffect(AckEffect(objs[c])) = AckEffect(objs[c]))
    /\ [](\A c \in Clients : AckHasLoop(c) => ENABLED ServerStep(c))

\* Two Acknowledge calls have returned on a dict that holds a value and on
\* which an ArmAndWait is still suspended.
C6_Witness ==
    \E c, d, w \in Clients :
        /\ c # d
        /\ IsDone(c, "acknowledge") /\ IsDone(d, "acknowledge")
        /\ req[c].st = req[d].st
        /\ req[w].pc = "suspended" /\ req[w].st = req[c].st
        /\ objs[req[c].st].value \in Values

\* ----------------------------------------------------------------------- C7
\* C7: after two Publishes one after the other, with no wait ever armed, a
\* CheckStatus or ArmAndWait that starts before any further Publish step
\* returns READY with the second value, so never the first.
C7_LastWriteWins ==
    \A c \in Clients :
        (/\ IsDone(c, "request_data") \/ IsDone(c, "set_lookout")
         /\ hist.snap[c] >= 2
         /\ ~hist.armedEver) =>
            /\ req[c].resp.status = "READY"
            /\ req[c].resp.value = hist.pubLog[hist.snap[c]]

\* ----------------------------------------------------------------------- C8
\* C8: an ArmAndWait that is suspended returns TIMEOUT unless a Publish is
\* called.
C8_WaitTimesOut ==
    \A w \in Clients :
        (req[w].pc = "suspended") ~>
            \/ ~NoPublishCalled
            \/ IsDone(w, "set_lookout") /\ req[w].resp.status = "TIMEOUT"

\* ----------------------------------------------------------------------- C9
\* C9: given that every api_call returns, every receive that was called
\* returns (a call returns once, so: time and again all the receives called
\* so far have returned); and it returns None when no Publish was ever called.
C9_Settled == \A c \in Clients :
                 (cl[c].prog = "receive" /\ cl[c].pc # "start") => cl[c].pc = "done"
C9_NoneWithoutPublish ==
    \A c \in Clients :
        (cl[c].prog = "receive" /\ cl[c].pc = "done" /\ NoPublishCalled)
            => cl[c].result = None
C9_ReceiveTerminates == []<>C9_Settled /\ []C9_NoneWithoutPublish

\* A receive has returned None after its set_lookout call gave up, with no
\* Publish called and the handler still suspended on the server.
C9_Witness ==
    \E c \in Clients :
        /\ cl[c].prog = "receive" /\ cl[c].pc = "done" /\ cl[c].result = None
        /\ cl[c].waitSent
        /\ NoPublishCalled
        /\ req[c].ep = "set_lookout" /\ req[c].pc = "suspended"

\* ---------------------------------------------------------------------- C10
\* C10: a receive that attempted ArmAndWait and returns no value has issued
\* Acknowledge before it returns.
C10_AckOnFailure ==
    \A c \in Clients :
        (/\ cl[c].prog = "receive"
         /\ cl[c].pc = "done"
         /\ cl[c].waitSent
         /\ cl[c].result = None) => cl[c].ackSent

\* ---------------------------------------------------------------------- C11
\* C11: the dict installed under a key is never replaced by another one, and
\* all the handlers that have taken the key's state, the suspended set_lookout
\* and the later update_variable included, work on that one dict.
StateTaken(c) == req[c].pc \notin {"none", "gvs_check", "gvs_install", "gvs_ret"}
C11_NeverReplaced ==
    \A k \in Keys : DATA_HUB[k] # 0 => DATA_HUB'[k] = DATA_HUB[k]
C11_SameState ==
    \A c, d \in Clients :
        (StateTaken(c) /\ StateTaken(d) /\ req[c].key = req[d].key) =>
            (req[c].st = req[d].st /\ req[c].st = DATA_HUB[req[c].key])
C11_CreationIdempotent == [][C11_NeverReplaced]_vars /\ []C11_SameState

\* ---------------------------------------------------------------------- C12
\* C12: a receive issues its calls in the order /request_data, /set_lookout,
\* /acknowledge, each at most once; /set_lookout only on the answer PENDING of
\* /request_data and /acknowledge only on an answer of /set_lookout; and a
\* receive that has returned a value it got from /set_lookout has issued its
\* one /acknowledge.
Receivers == {c \in Clients : cl[c].prog = "receive"}
Stage(ep) == CASE ep = "request_data" -> 1
               [] ep = "set_lookout" -> 2
               [] ep = "acknowledge" -> 3
               [] OTHER -> 0
Issues(c) == cl'[c].pc # cl[c].pc /\ cl'[c].pc \in {"wait_status", "wait_lookout", "wait_ack"}
C12_InOrder ==
    \A c \in Receivers :
        /\ Issues(c) =>
              /\ req'[c].pc = "gvs_check"
              /\ Stage(req'[c].ep) = Stage(req[c].ep) + 1
              /\ Stage(req'[c].ep) >= 2 => req[c].pc = "done"
              /\ Stage(req'[c].ep) = 2 => req[c].resp.status = "PENDING"
        /\ ~Issues(c) => req'[c].ep = req[c].ep
C12_AckedOnce ==
    \A c \in Receivers :
        (cl[c].pc = "done" /\ cl[c].waitSent /\ cl[c].result # None) =>
            (cl[c].ackSent /\ req[c].ep = "acknowledge")
C12_StagesInOrder == [][C12_InOrder]_vars /\ []C12_AckedOnce

\* A receive has returned the value its /set_lookout was woken with, after its
\* /acknowledge returned.
C12_Witness ==
    \E c \in Receivers :
        /\ cl[c].pc = "done" /\ cl[c].waitSent /\ cl[c].result \in Values
        /\ IsDone(c, "acknowledge")
        /\ \E p \in Clients : IsDone(p, "update_variable") /\ req[p].resp.message = "notified"

\* ---------------------------------------------------------------------- C13
\* C13: the value a woken /set_lookout returns is the value the key's state
\* held when the signal was last fired before the waiter's return, that is
\* the value written by the last Publish before the signal fired.
WokenReturns(w) == req[w].pc = "sl_woken" /\ req'[w].pc = "done"
StepOf(c, ep) == req[c].ep = ep /\ req'[c].pc # req[c].pc /\ req'[c].ep = ep
C14_ArmedFrame ==
    [][\A k \in Keys :
          /\ (\E p \in Clients : StepOf(p, "update_variable") /\ req[p].key = k)
                => KeyArmed(k)' = KeyArmed(k)
          /\ (KeyArmed(k) /\ ~KeyArmed(k)')
                => \E c \in Clients : /\ StepOf(c, "acknowledge") /\ req[c].key = k
                                       /\ req[c].pc = "ak_lookout"
          /\ (~KeyArmed(k) /\ KeyArmed(k)')
                => \E c \in Clients : /\ StepOf(c, "set_lookout") /\ req[c].key = k
                                       /\ req[c].pc = "sl_arm"]_vars

\* ---------------------------------------------------------------------- C15
\* C15: when /update_variable decides what to report (line 126), it takes the
\* branch that signals and reports a notified client exactly when a
\* /set_lookout call on the key is waiting at that moment (suspended and not
\* yet woken, or armed and about to suspend), and the branch that reports no
\* client waiting exactly when none is.
Waiting(w) == /\ req[w].ep = "set_lookout"
              /\ req[w].pc \in {"sl_clear", "sl_wait"} \/ Parked(w)
Decides(p) == req[p].ep = "update_variable" /\ req[p].pc = "uv_read" /\ req'[p].pc # "uv_read"
C15_ReportsWaiter ==
    [][\A p \in Clients :
          Decides(p) =>
              /\ (req'[p].pc = "uv_set")
                    <=> (\E w \in Clients : Waiting(w) /\ req[w].key = req[p].key)
              /\ (req'[p].pc = "done" /\ req'[p].resp.message = "nowaiter")
                    <=> ~(\E w \in Clients : Waiting(w) /\ req[w].key = req[p].key)]_vars

\* ---------------------------------------------------------------------- C16
\* C16: while the key is armed at most one /set_lookout call on it is
\* suspended in Event.wait.
Suspended(k) == {w \in Clients : /\ req[w].ep = "set_lookout" /\ req[w].key = k
                                 /\ req[w].pc = "suspended"}
C16_SingleWaiter == \A k \in Keys : KeyArmed(k) => Cardinality(Suspended(k)) <= 1

\* ---------------------------------------------------------------------- C17
\* C17: a step of /request_data on a key that has a state changes neither the
\* state under the key nor any dict nor any waiter; a step of it on a key that
\* has none leaves the key without a value and not armed; and it answers
\* PENDING when the key holds no value, READY with the value otherwise.
C17_StatusFrame ==
    [][\A c \in Clients :
          StepOf(c, "request_data") =>
              LET k == req[c].key
              IN /\ DATA_HUB[k] # 0 =>
                       /\ DATA_HUB'[k] = DATA_HUB[k]
                       /\ objs' = objs
                       /\ \A w \in Clients \ {c} : req'[w] = req[w]
                 /\ DATA_HUB[k] = 0 => (KeyValue(k)' = None /\ ~KeyArmed(k)')
                 /\ req'[c].pc = "done" =>
                       req'[c].resp = IF KeyValue(k) = None
                                      THEN Resp("PENDING", None, "")
                                      ELSE Resp("READY", KeyValue(k), "")]_vars

\* ---------------------------------------------------------------------- C18
\* C18: a /set_lookout call is woken (its future resolved, or the flag found
\* set by its Event.wait), and so returns RECEIVED, only after an Event.set of
\* an /update_variable ran on its state since the call armed: never on a flag
\* left set from before it armed.
Woken(w) == /\ req[w].ep = "set_lookout"
            /\ \/ req[w].pc = "suspended" /\ req[w].futDone
               \/ req[w].pc = "sl_woken"
               \/ req[w].pc = "done" /\ req[w].resp.status = "RECEIVED"
C18_NoStaleWake == \A w \in Clients : Woken(w) => hist.fired[w]

\* One waiter has returned RECEIVED on the signal of a Publish, and another
\* that armed the same state after that signal is suspended and not woken.
C18_Witness ==
    \E v, w \in Clients :
        /\ IsDone(v, "set_lookout") /\ req[v].resp.status = "RECEIVED"
        /\ req[w].ep = "set_lookout" /\ Parked(w) /\ ~hist.fired[w]
        /\ req[w].st = req[v].st
        /\ AllPublished

\* ---------------------------------------------------------------------- C19
\* C19: while a /set_lookout call on a key is suspended and not woken, the
\* key is armed, whatever calls were made on the key.
C19_SuspendedIsArmed ==
    \A w \in Clients :
        (req[w].ep = "set_lookout" /\ Parked(w)) => KeyArmed(req[w].key)

\* ---------------------------------------------------------------------- C20
\* C20: every answer READY or RECEIVED carries a value; the Event of a state
\* is set, and a waiter on it woken, only when the state holds a value; and a
\* receive that got an answer from /set_lookout got a value with it (lines
\* 114-116 are not reached).
C20_ValuePresent ==
    /\ \A c \in Clients :
          (req[c].pc = "done" /\ req[c].resp.status \in {"READY", "RECEIVED"})
              => req[c].resp.value \in Values
    /\ \A c \in Clients : objs[c].ev => objs[c].value \in Values
    /\ \A w \in Clients :
          (req[w].ep = "set_lookout" /\ req[w].pc \in {"suspended", "sl_woken"}
           /\ (req[w].futDone \/ req[w].pc = "sl_woken"))
              => objs[req[w].st].value \in Values
    /\ \A c \in Receivers : cl[c].ackSent => cl[c].result \in Values

\* A woken /set_lookout has answered RECEIVED with the published value, the
\* Event still set, and its receive has taken the value.
C20_Witness ==
    \E w \in Receivers :
        /\ cl[w].pc = "wait_ack" /\ cl[w].result \in Values
        /\ hist.fired[w]
        /\ objs[DATA_HUB[cl[w].var_name]].ev
        /\ objs[DATA_HUB[cl[w].var_name]].value = cl[w].result
====
